---------------------------- MODULE Spec2Model ----------------------------
(***************************************************************************)
(* A model of convert.c (c99-to-c89): one run of main over one source      *)
(* file.  libclang is the provider of the parse tree and of the tokens;    *)
(* the model takes what it returns as the input: `tokens' is what          *)
(* clang_tokenize returns for the translation unit, `tu' the top-level     *)
(* cursors that clang_visitChildren hands to callback.                     *)
(*                                                                         *)
(* Text is a sequence of one-character strings, so that strlen, strcmp,    *)
(* atoi and the printf conversions are computed rather than assumed.       *)
(* A cursor is the record of its node; a token is its spelling with the    *)
(* line and column libclang reports (both counted from 1).                 *)
(***************************************************************************)
EXTENDS Integers, Sequences, FiniteSets, TLC

VARIABLES
    tokens,                 \* main: the tokens of the translation unit
    tu,                     \* main: the children of the translation unit cursor
    pos,                    \* main: index of the next child clang_visitChildren visits
    pc,                     \* main: "visit", "print", "cleanup", or how the run ended
    status,                 \* exit status of the process (-1 while it runs)
    stdout,                 \* characters written to standard output
    stderr,                 \* characters written to the error stream
    structs,                \* structs[0 .. n_structs-1]
    n_allocated_structs,
    structs_blk,            \* the allocation `structs' points to (0: NULL)
    enums,                  \* enums[0 .. n_enums-1]
    n_allocated_enums,
    enums_blk,              \* the allocation `enums' points to (0: NULL)
    typedefs,               \* typedefs[0 .. n_typedefs-1]
    n_allocated_typedefs

vars == <<tokens, tu, pos, pc, status, stdout, stderr, structs,
          n_allocated_structs, structs_blk, enums, n_allocated_enums,
          enums_blk, typedefs, n_allocated_typedefs>>

-----------------------------------------------------------------------------
(* Bounds of the inputs.                                                   *)

\* enum initializers use the integer literals 0 .. MaxLit
MaxLit == 5
\* a source file of Spec has 1 .. MaxDecls top-level declarations
MaxDecls == 2
\* a struct field has 0 .. MaxPtrs pointer markers
MaxPtrs == 2
\* print_tokens: up to MaxGapLines line breaks and MaxGapCols blanks before a token
MaxGapLines == 1
MaxGapCols == 2
\* a source file of SpecGrow has up to MaxTags declarations of tags beside its typedef
MaxTags == 16

\* registries grow by this many entries at a time
AllocStep == 16
\* int is 32 bits wide
IntBits == 32

-----------------------------------------------------------------------------
(* Text.                                                                   *)

DigitChars == <<"0", "1", "2", "3", "4", "5", "6", "7", "8", "9">>

IsDigit(c) == \E i \in 1..10 : DigitChars[i] = c

DigitVal(c) == (CHOOSE i \in 1..10 : DigitChars[i] = c) - 1

NL == "\n"

RECURSIVE Itoa(_)
\* printf("%d") of a non-negative int
Itoa(n) ==
    IF n < 10 THEN <<DigitChars[n + 1]>>
    ELSE Itoa(n \div 10) \o <<DigitChars[(n % 10) + 1]>>

RECURSIVE AtoiFrom(_, _, _)
AtoiFrom(s, i, acc) ==
    IF i > Len(s) \/ ~IsDigit(s[i]) THEN acc
    ELSE AtoiFrom(s, i + 1, acc * 10 + DigitVal(s[i]))

\* atoi on a token spelling: an optional sign, then the leading digits
atoi(s) ==
    IF s # <<>> /\ s[1] = "-" THEN 0 - AtoiFrom(s, 2, 0)
    ELSE IF s # <<>> /\ s[1] = "+" THEN AtoiFrom(s, 2, 0)
    ELSE AtoiFrom(s, 1, 0)

\* strcmp(a, b) == 0
StrEq(a, b) == a = b

RECURSIVE Flatten(_)
\* the concatenation of a sequence of texts
Flatten(ss) == IF ss = <<>> THEN <<>> ELSE Head(ss) \o Flatten(Tail(ss))

Min(a, b) == IF a < b THEN a ELSE b

-----------------------------------------------------------------------------
(* The provider: what libclang returns for a source file.  A fragment is a *)
(* piece of source: the spellings of its tokens and the cursors whose      *)
(* extents lie in it, with token indices counted from the fragment's       *)
(* first token.  A cursor's extent is tokens from..to, its location the    *)
(* token loc (for a declaration: its name).                                *)

S_int      == <<"i", "n", "t">>
S_unsigned == <<"u", "n", "s", "i", "g", "n", "e", "d">>
S_void     == <<"v", "o", "i", "d">>
S_struct   == <<"s", "t", "r", "u", "c", "t">>
S_enum     == <<"e", "n", "u", "m">>
S_typedef  == <<"t", "y", "p", "e", "d", "e", "f">>
\* argv[1]
FileName   == <<"t", ".", "c">>

Node(kind, name, from, to, loc, kids) ==
    [kind |-> kind, name |-> name, from |-> from, to |-> to, loc |-> loc,
     kids |-> kids]

RECURSIVE Shift(_, _)
\* the cursor n of a fragment that now starts d tokens later
Shift(n, d) ==
    [n EXCEPT !.from = @ + d, !.to = @ + d, !.loc = @ + d,
              !.kids = [i \in DOMAIN n.kids |-> Shift(n.kids[i], d)]]

ShiftAll(ns, d) == [i \in DOMAIN ns |-> Shift(ns[i], d)]

Frag(sp, nodes) == [sp |-> sp, nodes |-> nodes]

\* one token that is no cursor of its own
Tok(s) == Frag(<<s>>, <<>>)

Cat(f, g) == Frag(f.sp \o g.sp, f.nodes \o ShiftAll(g.nodes, Len(f.sp)))

RECURSIVE CatAll(_)
CatAll(fs) == IF fs = <<>> THEN Frag(<<>>, <<>>) ELSE Cat(Head(fs), CatAll(Tail(fs)))

\* a cursor whose extent is the whole of f and whose children are f's cursors
Wrap(kind, name, loc, f) == Frag(f.sp, <<Node(kind, name, 1, Len(f.sp), loc, f.nodes)>>)

-----------------------------------------------------------------------------
(* Expressions.                                                            *)

Lit(v) == Wrap("IntegerLiteral", <<>>, 1, Tok(Itoa(v)))

Ref(name) == Wrap("DeclRefExpr", name, 1, Tok(name))

Bin(l, op, r) == Wrap("BinaryOperator", <<>>, Len(l.sp) + 1, CatAll(<<l, Tok(op), r>>))

Paren(e) == Wrap("ParenExpr", <<>>, 1, CatAll(<<Tok(<<"(">>), e, Tok(<<")">>)>>))

Neg(e) == Wrap("UnaryOperator", <<>>, 1, Cat(Tok(<<"-">>), e))

\* (P){ 1, 2 }
PlainLiteral ==
    Wrap("CompoundLiteralExpr", <<>>, 1,
         CatAll(<<Tok(<<"(">>), Wrap("TypeRef", <<"P">>, 1, Tok(<<"P">>)), Tok(<<")">>),
                  Wrap("InitListExpr", <<>>, 1,
                       CatAll(<<Tok(<<"{">>), Lit(1), Tok(<<",">>), Lit(2),
                                Tok(<<"}">>)>>))>>))

\* (P){ .a = 1 }
DesignatedLiteral ==
    Wrap("CompoundLiteralExpr", <<>>, 1,
         CatAll(<<Tok(<<"(">>), Wrap("TypeRef", <<"P">>, 1, Tok(<<"P">>)), Tok(<<")">>),
                  Wrap("InitListExpr", <<>>, 1,
                       CatAll(<<Tok(<<"{">>),
                                Wrap("UnexposedExpr", <<>>, 1,
                                     CatAll(<<Tok(<<".">>),
                                              Wrap("MemberRef", <<"a">>, 1, Tok(<<"a">>)),
                                              Tok(<<"=">>), Lit(1)>>)),
                                Tok(<<"}">>)>>))>>))

-----------------------------------------------------------------------------
(* Declarations.                                                           *)

\* int x;
DVar == Cat(Wrap("VarDecl", <<"x">>, 2, CatAll(<<Tok(S_int), Tok(<<"x">>)>>)), Tok(<<";">>))

\* void f() { x = <literal>; }
DFunc(literal) ==
    Wrap("FunctionDecl", <<"f">>, 2,
         CatAll(<<Tok(S_void), Tok(<<"f">>), Tok(<<"(">>), Tok(<<")">>),
                  Wrap("CompoundStmt", <<>>, 1,
                       CatAll(<<Tok(<<"{">>),
                                Wrap("BinaryOperator", <<>>, 2,
                                     CatAll(<<Ref(<<"x">>), Tok(<<"=">>), literal>>)),
                                Tok(<<";">>), Tok(<<"}">>)>>))>>))

\* a declarator of a field: nptr pointer markers, the name, and the digits of
\* an array suffix (<<>>: none)
Declarator(nptr, name, arr) == [nptr |-> nptr, name |-> name, arr |-> arr]

DeclaratorToks(d) ==
    [i \in 1..d.nptr |-> <<"*">>] \o <<d.name>>
    \o (IF d.arr = <<>> THEN <<>> ELSE <<<<"[">>, d.arr, <<"]">>>>)

\* type d1, d2, ... ;   Each field's extent starts at the type and ends at
\* its own declarator; its location is its name.
FieldGroup(type, ds) ==
    LET RECURSIVE Go(_, _, _)
        Go(i, sp, nodes) ==
            IF i > Len(ds) THEN Frag(sp \o <<<<";">>>>, nodes)
            ELSE LET pre == IF i = 1 THEN sp ELSE sp \o <<<<",">>>>
                     sp2 == pre \o DeclaratorToks(ds[i])
                 IN  Go(i + 1, sp2,
                        Append(nodes, Node("FieldDecl", ds[i].name, 1, Len(sp2),
                                           Len(pre) + ds[i].nptr + 1, <<>>)))
    IN  Go(1, type, <<>>)

\* struct name { groups }      (name <<>>: an anonymous struct)
StructSpec(name, groups) ==
    Wrap("StructDecl", name, IF name = <<>> THEN 1 ELSE 2,
         CatAll(<<Tok(S_struct), IF name = <<>> THEN Frag(<<>>, <<>>) ELSE Tok(name),
                  Tok(<<"{">>), CatAll(groups), Tok(<<"}">>)>>))

\* struct name      (a declaration without a body)
StructFwd(name) == Wrap("StructDecl", name, 2, Cat(Tok(S_struct), Tok(name)))

Enumerator(name) == Wrap("EnumConstantDecl", name, 1, Tok(name))

EnumeratorInit(name, e) ==
    Wrap("EnumConstantDecl", name, 1, CatAll(<<Tok(name), Tok(<<"=">>), e>>))

RECURSIVE CommaList(_)
CommaList(es) ==
    IF Len(es) = 0 THEN Frag(<<>>, <<>>)
    ELSE IF Len(es) = 1 THEN es[1]
    ELSE CatAll(<<es[1], Tok(<<",">>), CommaList(Tail(es))>>)

\* enum name { enumerators }
EnumSpec(name, es) ==
    Wrap("EnumDecl", name, IF name = <<>> THEN 1 ELSE 2,
         CatAll(<<Tok(S_enum), IF name = <<>> THEN Frag(<<>>, <<>>) ELSE Tok(name),
                  Tok(<<"{">>), CommaList(es), Tok(<<"}">>)>>))

EnumFwd(name) == Wrap("EnumDecl", name, 2, Cat(Tok(S_enum), Tok(name)))

\* <tag> ;
DTag(tag) == Cat(tag, Tok(<<";">>))

\* typedef <type tokens> name ;      no child cursor: a builtin type
DTypedefProxy(type, name) ==
    Cat(Wrap("TypedefDecl", name, Len(type) + 2,
             CatAll(<<Tok(S_typedef), Frag(type, <<>>), Tok(name)>>)),
        Tok(<<";">>))

\* typedef struct S name ;      the child is a reference to the type
DTypedefRef(key, tagname, name) ==
    Cat(Wrap("TypedefDecl", name, 4,
             CatAll(<<Tok(S_typedef), Tok(key),
                      Wrap("TypeRef", key \o <<" ">> \o tagname, 1, Tok(tagname)),
                      Tok(name)>>)),
        Tok(<<";">>))

\* typedef <tag with a body> name ;      the tag declaration is a child of the
\* translation unit and, the same cursor, the child of the typedef
DTypedefTag(tag, name) ==
    LET t == Wrap("TypedefDecl", name, Len(tag.sp) + 2,
                  CatAll(<<Tok(S_typedef), tag, Tok(name)>>))
    IN  Frag(t.sp \o <<<<";">>>>, <<t.nodes[1].kids[1], t.nodes[1]>>)

-----------------------------------------------------------------------------
(* Layout: where each token stands.  A gap is the line breaks and the      *)
(* blanks between the end of the previous token and the token.             *)

Gap(nl, sp) == [nl |-> nl, sp |-> sp]

NLCount(s) == Cardinality({i \in DOMAIN s : s[i] = NL})

\* characters after the last line break of s
TailLen(s) ==
    LET brk == {i \in DOMAIN s : s[i] = NL}
    IN  Len(s) - (CHOOSE i \in brk : \A j \in brk : j <= i)

RECURSIVE Place(_, _, _, _, _, _)
Place(sp, gaps, i, line, col, acc) ==
    IF i > Len(sp) THEN acc
    ELSE LET l == line + gaps[i].nl
             c == (IF gaps[i].nl > 0 THEN 1 ELSE col) + gaps[i].sp
             k == NLCount(sp[i])
         IN  Place(sp, gaps, i + 1, l + k,
                   IF k = 0 THEN c + Len(sp[i]) ELSE 1 + TailLen(sp[i]),
                   Append(acc, [sp |-> sp[i], line |-> l, col |-> c]))

\* line and column count from 1
Layout(sp, gaps) == Place(sp, gaps, 1, 1, 1, <<>>)

\* every declaration on a line of its own, one blank between its tokens
DeclGaps(d, first) ==
    [i \in 1..Len(d.sp) |->
        IF i = 1 THEN Gap(IF first THEN 0 ELSE 1, 0) ELSE Gap(0, 1)]

RECURSIVE FileGaps(_, _)
FileGaps(ds, first) ==
    IF ds = <<>> THEN <<>>
    ELSE DeclGaps(Head(ds), first) \o FileGaps(Tail(ds), FALSE)

\* the source file made of the declarations ds: its tokens and its tree
File(ds) ==
    LET f == CatAll(ds)
    IN  [tokens |-> Layout(f.sp, FileGaps(ds, TRUE)), tu |-> f.nodes]

-----------------------------------------------------------------------------
(* The fixed parts of the program's messages.                              *)

\* "Could not find token "
M_NoToken ==
    <<"C", "o", "u", "l", "d", " ", "n", "o", "t", " ", "f", "i", "n", "d",
          " ", "t", "o", "k", "e", "n", " ">>
\* " in set\n"
M_InSet ==
    <<" ", "i", "n", " ", "s", "e", "t", NL>>
\* "Unknown arithmetic expression "
M_UnknownArith ==
    <<"U", "n", "k", "n", "o", "w", "n", " ", "a", "r", "i", "t", "h", "m",
          "e", "t", "i", "c", " ", "e", "x", "p", "r", "e", "s", "s", "i",
          "o", "n", " ">>
\* "Unknown enum value "
M_UnknownEnum ==
    <<"U", "n", "k", "n", "o", "w", "n", " ", "e", "n", "u", "m", " ", "v",
          "a", "l", "u", "e", " ">>
\* "member: "
M_Member ==
    <<"m", "e", "m", "b", "e", "r", ":", " ">>
\* " (parent: "
M_Parent ==
    <<" ", "(", "p", "a", "r", "e", "n", "t", ":", " ">>
\* "DERP: "
M_Derp ==
    <<"D", "E", "R", "P", ":", " ">>
\* "token = '"
M_Token ==
    <<"t", "o", "k", "e", "n", " ", "=", " ", "'">>
\* "' @ "
M_At ==
    <<"'", " ", "@", " ">>
\* " in "
M_In ==
    <<" ", "i", "n", " ">>
\* "Assertion failed: "
M_Assert ==
    <<"A", "s", "s", "e", "r", "t", "i", "o", "n", " ", "f", "a", "i", "l",
          "e", "d", ":", " ">>

-----------------------------------------------------------------------------
(* The program's memory.  A pointer into a registry names the allocation   *)
(* and the entry (counted from 1); realloc may move a registry to a new    *)
(* allocation.                                                             *)

Ptr(blk, idx) == [blk |-> blk, idx |-> idx]

NULL == Ptr(0, 0)

\* a pointer-sized piece of memory nobody wrote: not NULL, and no entry
Wild == Ptr(-1, 0)

\* char *: NULL, a string of the heap, or memory nobody wrote
NullStr == [p |-> "NULL", s |-> <<>>]
WildStr == [p |-> "wild", s |-> <<>>]
HeapStr(s) == [p |-> "heap", s |-> s]

\* what the fields of a fresh typedefs[] slot may hold before they are written
Uninit ==
    [struct_decl : {NULL, Wild}, enum_decl : {NULL, Wild}, proxy : {NullStr, WildStr}]

\* memset(&decl, 0, sizeof(decl))
ZeroDecl == [struct_decl |-> NULL, enum_decl |-> NULL]

\* the numbers of the cursor kinds (clang-c/Index.h), as printf("%d") shows them
CXCursorKind ==
    [StructDecl |-> 2, EnumDecl |-> 5, FieldDecl |-> 6, EnumConstantDecl |-> 7,
     FunctionDecl |-> 8, VarDecl |-> 9, TypedefDecl |-> 20, TypeRef |-> 43,
     MemberRef |-> 47, UnexposedExpr |-> 100, DeclRefExpr |-> 101,
     IntegerLiteral |-> 106, ParenExpr |-> 111, UnaryOperator |-> 112,
     BinaryOperator |-> 114, CompoundLiteralExpr |-> 118, InitListExpr |-> 119,
     CompoundStmt |-> 202, TranslationUnit |-> 300]

\* the globals, the output so far and how the run stands, as one value that
\* the functions below take and return.  decl is the local TypedefDeclaration
\* of the callback that is visiting a typedef; moved and uninit say what the
\* allocator does during this step.
Mem(moved, uninit) ==
    [structs |-> structs, n_allocated_structs |-> n_allocated_structs,
     structs_blk |-> structs_blk,
     enums |-> enums, n_allocated_enums |-> n_allocated_enums,
     enums_blk |-> enums_blk,
     typedefs |-> typedefs, n_allocated_typedefs |-> n_allocated_typedefs,
     out |-> stdout, err |-> stderr, run |-> "ok",
     decl |-> ZeroDecl, moved |-> moved, uninit |-> uninit]

\* fprintf(stderr, ...); exit(1);
Exit1(m, msg) == [m EXCEPT !.err = @ \o msg, !.run = "exit"]

\* a failed assert(expr): the diagnostic, then abort()
Abort(m, expr) == [m EXCEPT !.err = @ \o M_Assert \o expr \o <<NL>>, !.run = "abort"]

\* undefined behaviour: from here the run is not bound by the program text
Undefined(m) == [m EXCEPT !.run = "ub"]

\* clang_tokenize(TU, clang_getCursorExtent(cursor), ...): the tokens of the
\* extent and the token that follows it
Tokenize(cursor) == SubSeq(tokens, cursor.from, Min(cursor.to + 1, Len(tokens)))

-----------------------------------------------------------------------------
(* Tokens of an extent, with the indices of the C code (counted from 0).   *)

\* clang_getTokenSpelling(TU, toks[i])
Spelling(toks, i) == toks[i + 1].sp

\* toks[i] is an element of the array
InArray(toks, i) == 0 <= i /\ i < Len(toks)

\* the lowest n with strcmp(str, spelling of toks[n]) == 0; Len(toks): none
find_token_index(toks, str) ==
    IF \E n \in 0..(Len(toks) - 1) : StrEq(str, Spelling(toks, n))
    THEN CHOOSE n \in 0..(Len(toks) - 1) :
             /\ StrEq(str, Spelling(toks, n))
             /\ \A k \in 0..(n - 1) : ~StrEq(str, Spelling(toks, k))
    ELSE Len(toks)

RECURSIVE concat_name(_, _, _)
\* the spellings of toks[from .. to], one blank between two of them
concat_name(toks, from, to) ==
    IF from > to THEN <<>>
    ELSE IF from = to THEN Spelling(toks, from)
    ELSE Spelling(toks, from) \o <<" ">> \o concat_name(toks, from + 1, to)

RECURSIVE CountPtrs(_, _, _)
\* the loop of fill_struct_members that counts the "*" before toks[idx];
\* -1: it reads in front of the array
CountPtrs(toks, idx, n_ptrs) ==
    LET im1 == idx - 1 - n_ptrs
    IN  IF ~InArray(toks, im1) THEN -1
        ELSE IF StrEq(Spelling(toks, im1), <<"*">>) THEN CountPtrs(toks, idx, n_ptrs + 1)
        ELSE n_ptrs

\* the array_size of the field whose name was found at toks[idx];
\* -1: it reads behind the array
ArraySize(toks, idx) ==
    IF ~InArray(toks, idx + 1) THEN -1
    ELSE IF StrEq(Spelling(toks, idx + 1), <<"[">>)
         THEN IF InArray(toks, idx + 2) THEN atoi(Spelling(toks, idx + 2)) ELSE -1
         ELSE 0

\* fill_struct_members, lines 182-226: the name was found at toks[idx], arr
\* and n_ptrs are what the two loops left
AddField(m, cursor, toks, idx, arr, n_ptrs) ==
    LET d     == Len(m.structs)
        decl  == m.structs[d]
        n     == Len(decl.entries)
        alloc == IF n = decl.n_allocated_entries
                 THEN decl.n_allocated_entries + AllocStep
                 ELSE decl.n_allocated_entries
        im1   == idx - 1 - n_ptrs
        comma == StrEq(Spelling(toks, im1), <<",">>)
        type  == IF comma THEN decl.entries[n].type ELSE concat_name(toks, 0, im1)
    IN  IF arr = -1 \/ n_ptrs = -1 \/ (comma /\ n = 0)
        THEN Undefined(m)
        ELSE [m EXCEPT
                !.structs[d].entries =
                    Append(@, [type |-> type, name |-> cursor.name,
                               n_ptrs |-> n_ptrs, array_size |-> arr,
                               cursor |-> cursor]),
                !.structs[d].n_allocated_entries = alloc]

\* fill_struct_members, line 186: idx is what find_token_index returned
FieldAt(m, cursor, toks, idx) ==
    IF idx = Len(toks)
    THEN Exit1(m, M_NoToken \o cursor.name \o M_InSet)
    ELSE AddField(m, cursor, toks, idx, ArraySize(toks, idx), CountPtrs(toks, idx, 0))

\* fill_struct_members: the visitor of the children of a struct declaration;
\* decl is the entry register_struct has just added, the last of structs
fill_struct_members(m, cursor) ==
    IF m.run # "ok" \/ cursor.kind # "FieldDecl" THEN m
    ELSE FieldAt(m, cursor, Tokenize(cursor),
                 find_token_index(Tokenize(cursor), cursor.name))

RECURSIVE StructKids(_, _, _)
\* clang_visitChildren(cursor, fill_struct_members, decl)
StructKids(m, kids, i) ==
    IF i > Len(kids) THEN m
    ELSE StructKids(fill_struct_members(m, kids[i]), kids, i + 1)

\* !memcmp(&a, &b, sizeof(CXCursor)): the test without its negation
CursorsEqual(a, b) == a = b

\* memcmp(&a, &b, sizeof(CXCursor)) != 0
CursorDiffers(a, b) == a # b

\* the first entry register_struct / register_enum takes for "already
\* exists"; 0: none
FindExisting(table, str, cursor) ==
    IF \E n \in 1..Len(table) :
           StrEq(table[n].name, str) /\ CursorDiffers(cursor, table[n].cursor)
    THEN CHOOSE n \in 1..Len(table) :
             /\ StrEq(table[n].name, str) /\ CursorDiffers(cursor, table[n].cursor)
             /\ \A k \in 1..(n - 1) :
                    ~(StrEq(table[k].name, str) /\ CursorDiffers(cursor, table[k].cursor))
    ELSE 0

\* the allocation realloc(blk, ...) returns: the first one of an empty
\* registry, later the same one or, when it moves the entries, the next
Realloc(blk, moved) == IF blk = 0 \/ moved THEN blk + 1 ELSE blk

\* register_struct, lines 245-246 and 271-272
LinkStruct(m, client, p) ==
    IF client /\ m.run = "ok" THEN [m EXCEPT !.decl.struct_decl = p] ELSE m

\* register_struct, lines 251-267: a new entry, the registry grown if it is full
NewStruct(m, str, cursor) ==
    LET grow == Len(m.structs) = m.n_allocated_structs
    IN  [m EXCEPT
           !.n_allocated_structs = IF grow THEN @ + AllocStep ELSE @,
           !.structs_blk = IF grow THEN Realloc(@, m.moved) ELSE @,
           !.structs = Append(@, [name |-> str, cursor |-> cursor, entries |-> <<>>,
                                  n_allocated_entries |-> 0])]

\* register_struct, lines 269-272: m1 has the new entry, the last of structs
FillStruct(m1, cursor, client) ==
    LinkStruct(StructKids(m1, cursor.kids, 1), client,
               Ptr(m1.structs_blk, Len(m1.structs)))

\* register_struct, after its loop: found is the entry taken for str (0: none)
RegisterStructAt(m, str, cursor, client, found) ==
    IF found # 0 THEN LinkStruct(m, client, Ptr(m.structs_blk, found))
    ELSE FillStruct(NewStruct(m, str, cursor), cursor, client)

\* register_struct(str, cursor, decl_ptr); client: decl_ptr is not NULL
register_struct(m, str, cursor, client) ==
    IF m.run # "ok" THEN m
    ELSE RegisterStructAt(m, str, cursor, client, FindExisting(m.structs, str, cursor))

-----------------------------------------------------------------------------
(* int arithmetic.                                                         *)

INT_MAX == 2147483647
INT_MIN == (0 - INT_MAX) - 1

Abs(x) == IF x < 0 THEN 0 - x ELSE x

\* the sum, the difference, the product leave the range of int
AddOverflows(a, b) ==
    \/ b > 0 /\ a > INT_MAX - b
    \/ b < 0 /\ a < INT_MIN - b

SubOverflows(a, b) ==
    \/ b < 0 /\ a > INT_MAX + b
    \/ b > 0 /\ a < INT_MIN + b

MulOverflows(a, b) ==
    /\ a # 0 /\ b # 0
    /\ \/ a = INT_MIN \/ b = INT_MIN
       \/ Abs(a) > INT_MAX \div Abs(b)

BitOf(op, x, y) ==
    CASE op = "^" -> IF x # y THEN 1 ELSE 0
      [] op = "|" -> IF x = 1 \/ y = 1 THEN 1 ELSE 0
      [] op = "&" -> IF x = 1 /\ y = 1 THEN 1 ELSE 0

RECURSIVE Bitwise(_, _, _)
\* a op b on two's complement ints, bit by bit from the lowest; an int that
\* is 0 or -1 has all its bits equal
Bitwise(op, a, b) ==
    IF a \in {0, -1} /\ b \in {0, -1}
    THEN 0 - BitOf(op, 0 - a, 0 - b)
    ELSE 2 * Bitwise(op, a \div 2, b \div 2) + BitOf(op, a % 2, b % 2)

\* the quotient rounded down, as \div does
FloorDiv(a, b) == IF b > 0 THEN a \div b ELSE (0 - a) \div (0 - b)

\* a / b of C: the quotient with its fraction dropped
CDiv(a, b) ==
    IF (a < 0) = (b < 0) THEN Abs(a) \div Abs(b) ELSE 0 - (Abs(a) \div Abs(b))

\* a % b of C
CRem(a, b) == a - CDiv(a, b) * b

\* arithmetic_expression(val1, expr, val2): the value it returns, or how it
\* ends the run
arithmetic_expression(val1, expr, val2) ==
    IF Len(expr) # 1 THEN [run |-> "abort", val |-> 0]
    ELSE
    CASE expr[1] \in {"^", "|", "&"} ->
            [run |-> "ok", val |-> Bitwise(expr[1], val1, val2)]
      [] expr[1] = "+" ->
            IF AddOverflows(val1, val2) THEN [run |-> "ub", val |-> 0]
            ELSE [run |-> "ok", val |-> val1 + val2]
      [] expr[1] = "-" ->
            IF SubOverflows(val1, val2) THEN [run |-> "ub", val |-> 0]
            ELSE [run |-> "ok", val |-> val1 - val2]
      [] expr[1] = "*" ->
            IF MulOverflows(val1, val2) THEN [run |-> "ub", val |-> 0]
            ELSE [run |-> "ok", val |-> val1 * val2]
      [] expr[1] = "/" ->
            IF val2 = 0 \/ (val1 = INT_MIN /\ val2 = -1) THEN [run |-> "ub", val |-> 0]
            ELSE [run |-> "ok", val |-> CDiv(val1, val2)]
      [] expr[1] = "%" ->
            IF val2 = 0 \/ (val1 = INT_MIN /\ val2 = -1) THEN [run |-> "ub", val |-> 0]
            ELSE [run |-> "ok", val |-> CRem(val1, val2)]
      [] OTHER -> [run |-> "exit", val |-> 0]

-----------------------------------------------------------------------------
(* The enum registry.                                                      *)

\* the members of all registered enums, in the order find_enum_value scans
AllMembers(table) ==
    LET RECURSIVE Go(_)
        Go(n) == IF n > Len(table) THEN <<>> ELSE table[n].entries \o Go(n + 1)
    IN  Go(1)

\* find_enum_value(str) finds a member
EnumValueKnown(table, str) ==
    \E k \in DOMAIN AllMembers(table) : StrEq(AllMembers(table)[k].name, str)

\* find_enum_value(str): the value of the first member named str
find_enum_value(table, str) ==
    LET all == AllMembers(table)
    IN  all[CHOOSE k \in DOMAIN all :
                /\ StrEq(all[k].name, str)
                /\ \A j \in 1..(k - 1) : ~StrEq(all[j].name, str)].value

\* int cache[3] = { 0 }
ZeroCache == <<0, 0, 0>>

\* ptr[1 + ptr[0]++] = v
Push(m, cache, v) ==
    IF cache[1] >= 2 THEN [m |-> Undefined(m), cache |-> cache]
    ELSE [m |-> m, cache |-> [cache EXCEPT ![1] = @ + 1, ![cache[1] + 2] = v]]

RECURSIVE fill_enum_value(_, _, _)
RECURSIVE ValueKids(_, _, _, _)

\* clang_visitChildren(cursor, fill_enum_value, cache)
ValueKids(m, cache, kids, i) ==
    IF i > Len(kids) THEN [m |-> m, cache |-> cache]
    ELSE LET r == fill_enum_value(m, cache, kids[i])
         IN  ValueKids(r.m, r.cache, kids, i + 1)

\* fill_enum_value, lines 329-331: a is what arithmetic_expression returned
\* for the operator token op
StoreResult(m, cache, op, a) ==
    CASE a.run = "abort" -> [m |-> Abort(m, <<"e", "x", "p", "r">>), cache |-> cache]
      [] a.run = "exit" ->
            [m |-> Exit1(m, M_UnknownArith \o op \o <<NL>>), cache |-> cache]
      [] a.run = "ub" -> [m |-> Undefined(m), cache |-> cache]
      [] OTHER -> Push(m, cache, a.val)

\* fill_enum_value, lines 327-331: sub is what visiting the operands left
BinaryValue(m, cache, op, sub) ==
    IF sub.m.run # "ok" THEN [m |-> sub.m, cache |-> cache]
    ELSE IF sub.cache[1] # 2
    THEN [m |-> Abort(m, <<"c", "a", "c", "h", "e">>), cache |-> cache]
    ELSE StoreResult(m, cache, op,
                     arithmetic_expression(sub.cache[2], op, sub.cache[3]))

\* fill_enum_value, lines 344-351: str is the spelling of the first token
RefValue(m, cache, str) ==
    IF ~EnumValueKnown(m.enums, str)
    THEN [m |-> Exit1(m, M_UnknownEnum \o str \o <<NL>>), cache |-> cache]
    ELSE Push(m, cache, find_enum_value(m.enums, str))

\* fill_enum_value: the visitor of the children of an enumerator and of the
\* operands of a binary operator; ptr is cache
fill_enum_value(m, cache, cursor) ==
    IF m.run # "ok" THEN [m |-> m, cache |-> cache]
    ELSE
    LET toks == Tokenize(cursor)
        bad  == [m |-> Abort(m, <<"n", "_", "t", "o", "k", "e", "n", "s">>),
                 cache |-> cache]
    IN  CASE cursor.kind = "BinaryOperator" ->
                IF Len(toks) # 4 THEN bad
                ELSE BinaryValue(m, cache, Spelling(toks, 1),
                                 ValueKids(m, ZeroCache, cursor.kids, 1))
          [] cursor.kind = "IntegerLiteral" ->
                IF Len(toks) # 2 THEN bad
                ELSE Push(m, cache, atoi(Spelling(toks, 0)))
          [] cursor.kind = "DeclRefExpr" ->
                IF Len(toks) # 2 THEN bad
                ELSE RefValue(m, cache, Spelling(toks, 0))
          [] OTHER -> [m |-> m, cache |-> cache]

\* the position of the enumerator as its value
PositionValue(entries, n) == n

\* the value of the enumerator at index n (from 0) that has no evaluated
\* initializer
DefaultValue(entries, n) ==
    IF n = 0 THEN 0 ELSE entries[n].value + 1

\* fill_enum_members, lines 391-399: r is what visiting the initializer left
AddMember(m, cursor, r) ==
    LET d     == Len(m.enums)
        decl  == m.enums[d]
        n     == Len(decl.entries)
        alloc == IF n = decl.n_allocated_entries
                 THEN decl.n_allocated_entries + AllocStep
                 ELSE decl.n_allocated_entries
        value == IF r.cache[1] = 1 THEN r.cache[2] ELSE DefaultValue(decl.entries, n)
    IN  IF r.m.run # "ok" THEN r.m
        ELSE IF r.cache[1] > 1 THEN Abort(m, <<"c", "a", "c", "h", "e">>)
        ELSE IF r.cache[1] # 1 /\ n > 0 /\ decl.entries[n].value = INT_MAX
        THEN Undefined(m)
        ELSE [m EXCEPT
                !.enums[d].entries =
                    Append(@, [name |-> cursor.name, value |-> value,
                               cursor |-> cursor]),
                !.enums[d].n_allocated_entries = alloc]

\* fill_enum_members: the visitor of the children of an enum declaration;
\* decl is the entry register_enum has just added, the last of enums
fill_enum_members(m, cursor) ==
    IF m.run # "ok" \/ cursor.kind # "EnumConstantDecl" THEN m
    ELSE AddMember(m, cursor, ValueKids(m, ZeroCache, cursor.kids, 1))

RECURSIVE EnumKids(_, _, _)
\* clang_visitChildren(cursor, fill_enum_members, decl)
EnumKids(m, kids, i) ==
    IF i > Len(kids) THEN m
    ELSE EnumKids(fill_enum_members(m, kids[i]), kids, i + 1)

\* register_enum, lines 417-419: the name is taken for registered
LinkEnum(m, client, p) ==
    IF client /\ m.run = "ok" THEN [m EXCEPT !.decl.enum_decl = p] ELSE m

\* register_enum, lines 423-439: a new entry, the registry grown if it is full
NewEnum(m, str, cursor) ==
    LET grow == Len(m.enums) = m.n_allocated_enums
    IN  [m EXCEPT
           !.n_allocated_enums = IF grow THEN @ + AllocStep ELSE @,
           !.enums_blk = IF grow THEN Realloc(@, m.moved) ELSE @,
           !.enums = Append(@, [name |-> str, cursor |-> cursor, entries |-> <<>>,
                                n_allocated_entries |-> 0])]

\* register_enum, lines 441-444: m1 has the new entry, the last of enums
FillEnum(m1, cursor, client) ==
    LinkEnum(EnumKids(m1, cursor.kids, 1), client, Ptr(m1.enums_blk, Len(m1.enums)))

\* register_enum, after its loop: found is the entry taken for str (0: none)
RegisterEnumAt(m, str, cursor, client, found) ==
    IF found # 0 THEN LinkEnum(m, client, Ptr(m.enums_blk, found))
    ELSE FillEnum(NewEnum(m, str, cursor), cursor, client)

\* register_enum(str, cursor, decl_ptr); client: decl_ptr is not NULL
register_enum(m, str, cursor, client) ==
    IF m.run # "ok" THEN m
    ELSE RegisterEnumAt(m, str, cursor, client, FindExisting(m.enums, str, cursor))

-----------------------------------------------------------------------------
(* The typedef registry and the traversal.                                 *)

\* register_typedef(name, tokens, n_tokens, decl, cursor): the fields of the
\* new entry that are not assigned keep what the allocation held
register_typedef(m, name, toks, cursor) ==
    IF m.run # "ok" THEN m
    ELSE
    LET grow == Len(m.typedefs) = m.n_allocated_typedefs
        slot == [name |-> name, cursor |-> cursor,
                 struct_decl |-> m.uninit.struct_decl,
                 enum_decl |-> m.uninit.enum_decl,
                 proxy |-> m.uninit.proxy]
        e    == IF m.decl.struct_decl # NULL
                THEN [slot EXCEPT !.struct_decl = m.decl.struct_decl]
                ELSE IF m.decl.enum_decl # NULL
                THEN [slot EXCEPT !.enum_decl = m.decl.enum_decl]
                ELSE [slot EXCEPT
                        !.proxy = HeapStr(concat_name(toks, 1, Len(toks) - 3))]
    IN  IF m.decl.struct_decl = NULL /\ m.decl.enum_decl = NULL /\ Len(toks) < 3
        THEN Undefined(m)
        ELSE [m EXCEPT !.typedefs = Append(@, e),
                       !.n_allocated_typedefs = IF grow THEN @ + AllocStep ELSE @]

KindNo(kind) == CXCursorKind[kind]

\* "token = '%s' @ %d:%d\n" for the tokens toks[i ..]
RECURSIVE TokenLines(_, _)
TokenLines(toks, i) ==
    IF i > Len(toks) THEN <<>>
    ELSE M_Token \o toks[i].sp \o M_At \o Itoa(toks[i].line) \o <<":">>
         \o Itoa(toks[i].col) \o <<NL>> \o TokenLines(toks, i + 1)

\* "DERP: %d [%d] %s @ %d:%d in %s\n", then the token lines: what the
\* default branch of callback prints with DEBUG defined as 1
DerpText(cursor, parent) ==
    M_Derp \o Itoa(KindNo(cursor.kind)) \o <<" ", "[">> \o Itoa(KindNo(parent))
    \o <<"]", " ">> \o cursor.name \o <<" ", "@", " ">>
    \o Itoa(tokens[cursor.loc].line) \o <<":">> \o Itoa(tokens[cursor.loc].col)
    \o M_In \o FileName \o <<NL>> \o TokenLines(Tokenize(cursor), 1)

\* "member: %s (parent: %d)\n"
MemberText(cursor, parent) ==
    M_Member \o cursor.name \o M_Parent \o Itoa(KindNo(parent)) \o <<")", NL>>

\* what the traversal of a cursor of the default branch writes to stdout
DefaultOutput(cursor, parent) == DerpText(cursor, parent)

\* what the traversal of a member reference writes to stdout
MemberRefOutput(cursor, parent) ==
    IF parent = "UnexposedExpr" THEN MemberText(cursor, parent) ELSE <<>>

RECURSIVE callback(_, _, _, _)
RECURSIVE VisitKids(_, _, _, _, _)

\* clang_visitChildren(cursor, callback, client_data): callback returns
\* CXChildVisit_Continue, so only the children themselves are visited;
\* client: client_data is the decl of the callback of the typedef
VisitKids(m, kids, i, parent, client) ==
    IF i > Len(kids) THEN m
    ELSE VisitKids(callback(m, kids[i], parent, client), kids, i + 1, parent, client)

callback(m, cursor, parent, client) ==
    IF m.run # "ok" THEN m
    ELSE
    CASE cursor.kind = "TypedefDecl" ->
            LET m1 == VisitKids([m EXCEPT !.decl = ZeroDecl], cursor.kids, 1,
                                cursor.kind, TRUE)
                m2 == register_typedef(m1, cursor.name, Tokenize(cursor), cursor)
            IN  [m2 EXCEPT !.decl = m.decl]
      [] cursor.kind = "StructDecl" ->
            register_struct(m, cursor.name, cursor, client)
      [] cursor.kind = "EnumDecl" ->
            register_enum(m, cursor.name, cursor, client)
      [] cursor.kind \in {"CompoundLiteralExpr", "TypeRef", "InitListExpr",
                          "UnexposedExpr"} ->
            VisitKids(m, cursor.kids, 1, cursor.kind, FALSE)
      [] cursor.kind = "MemberRef" ->
            [m EXCEPT !.out = @ \o MemberRefOutput(cursor, parent)]
      [] cursor.kind \in {"IntegerLiteral", "DeclRefExpr"} -> m
      [] OTHER ->
            VisitKids([m EXCEPT !.out = @ \o DefaultOutput(cursor, parent)],
                      cursor.kids, 1, cursor.kind, FALSE)

-----------------------------------------------------------------------------
(* Printing.                                                               *)

Repeat(c, n) == [i \in 1..n |-> c]

RECURSIVE PrintLoop(_, _, _, _, _)
\* the loop of print_tokens from token n on (counted from 1), with what it
\* has written so far; ok: no assert failed
PrintLoop(toks, n, cpos, lnum, out) ==
    IF n > Len(toks) THEN [ok |-> TRUE, out |-> out]
    ELSE
    LET line  == toks[n].line - 1
        col   == toks[n].col - 1
        cpos1 == IF lnum < line THEN 0 ELSE cpos
        fill  == IF cpos1 < col THEN col - cpos1 ELSE 0
        cstr  == toks[n].sp
    IN  IF line < lnum THEN [ok |-> FALSE, out |-> out]
        ELSE PrintLoop(toks, n + 1, cpos1 + fill + Len(cstr), line,
                       out \o Repeat(NL, line - lnum) \o Repeat(" ", fill) \o cstr)

\* print_tokens(tokens, n_tokens): what it writes to stdout
print_tokens(toks) ==
    LET r == PrintLoop(toks, 1, 0, 0, <<>>)
    IN  IF r.ok THEN [ok |-> TRUE, out |-> r.out \o <<NL>>] ELSE r

-----------------------------------------------------------------------------
(* Tearing down.                                                           *)

\* p is the address of an entry of the registry as it now stands
Live(p, table, blk) == p.blk = blk /\ p.blk # 0 /\ p.idx \in 1..Len(table)

\* cleanup reads through the struct or enum pointer of typedefs[n], or
\* frees its proxy: whether all it touches is memory the program owns
CleanEntry(t) ==
    IF t.struct_decl # NULL THEN Live(t.struct_decl, structs, structs_blk)
    ELSE IF t.enum_decl # NULL THEN Live(t.enum_decl, enums, enums_blk)
    ELSE t.proxy.p # "wild"

-----------------------------------------------------------------------------
(* The run.                                                                *)

StartOn(file) ==
    /\ tokens = file.tokens
    /\ tu = file.tu
    /\ pos = 1
    /\ pc = "visit"
    /\ status = -1
    /\ stdout = <<>>
    /\ stderr = <<>>
    /\ structs = <<>>
    /\ n_allocated_structs = 0
    /\ structs_blk = 0
    /\ enums = <<>>
    /\ n_allocated_enums = 0
    /\ enums_blk = 0
    /\ typedefs = <<>>
    /\ n_allocated_typedefs = 0

\* the exit status with which a run that ended this way leaves; -1: none that
\* the program text decides
StatusOf(run) ==
    CASE run = "done" -> 0
      [] run = "exit" -> 1
      [] run = "abort" -> 134
      [] OTHER -> -1

\* what realloc may do in the next step: it can move a registry only when it
\* grows one that has an allocation
Moves ==
    IF \/ structs_blk # 0 /\ Len(structs) = n_allocated_structs
       \/ enums_blk # 0 /\ Len(enums) = n_allocated_enums
    THEN BOOLEAN ELSE {FALSE}

RECURSIVE HasTypedef(_)
HasTypedef(cursor) ==
    \/ cursor.kind = "TypedefDecl"
    \/ \E i \in DOMAIN cursor.kids : HasTypedef(cursor.kids[i])

\* what a fresh slot of typedefs may hold in the next step: it matters only
\* when the step registers a typedef
SlotContents(cursor) ==
    IF HasTypedef(cursor) THEN Uninit
    ELSE {[struct_decl |-> NULL, enum_decl |-> NULL, proxy |-> NullStr]}

\* main, line 739: clang_visitChildren calls callback for the next child of
\* the translation unit
Callback ==
    /\ pc = "visit"
    /\ pos <= Len(tu)
    /\ \E moved \in Moves, uninit \in SlotContents(tu[pos]) :
          LET m == callback(Mem(moved, uninit), tu[pos], "TranslationUnit", FALSE)
          IN  /\ structs' = m.structs
              /\ n_allocated_structs' = m.n_allocated_structs
              /\ structs_blk' = m.structs_blk
              /\ enums' = m.enums
              /\ n_allocated_enums' = m.n_allocated_enums
              /\ enums_blk' = m.enums_blk
              /\ typedefs' = m.typedefs
              /\ n_allocated_typedefs' = m.n_allocated_typedefs
              /\ stdout' = m.out
              /\ stderr' = m.err
              /\ pc' = IF m.run # "ok" THEN m.run
                       ELSE IF pos = Len(tu) THEN "print" ELSE "visit"
              /\ status' = IF m.run # "ok" THEN StatusOf(m.run) ELSE status
    /\ pos' = pos + 1
    /\ UNCHANGED <<tokens, tu>>

\* main, line 740
PrintTokens ==
    /\ pc = "print"
    /\ LET r == print_tokens(tokens)
       IN  /\ stdout' = stdout \o r.out
           /\ pc' = IF r.ok THEN "cleanup" ELSE "abort"
           /\ status' = IF r.ok THEN status ELSE StatusOf("abort")
    /\ UNCHANGED <<tokens, tu, pos, stderr, structs, n_allocated_structs,
                   structs_blk, enums, n_allocated_enums, enums_blk, typedefs,
                   n_allocated_typedefs>>

\* main, lines 741-748: cleanup frees the registries (their variables keep
\* what they held), main returns 0
Cleanup ==
    /\ pc = "cleanup"
    /\ \E end \in {"done"} \cup
                  (IF \A n \in DOMAIN typedefs : CleanEntry(typedefs[n])
                   THEN {} ELSE {"ub"}) :
          /\ pc' = end
          /\ status' = StatusOf(end)
    /\ UNCHANGED <<tokens, tu, pos, stdout, stderr, structs, n_allocated_structs,
                   structs_blk, enums, n_allocated_enums, enums_blk, typedefs,
                   n_allocated_typedefs>>

Next == Callback \/ PrintTokens \/ Cleanup


-----------------------------------------------------------------------------
(* The source files of the specifications.                                 *)

IntA == FieldGroup(<<S_int>>, <<Declarator(0, <<"a">>, <<>>)>>)
IntB == FieldGroup(<<S_int>>, <<Declarator(0, <<"b">>, <<>>)>>)

\* the top-level declarations of Spec
Decls ==
    { DVar,                                                  \* int x;
      DFunc(PlainLiteral),                                   \* void f() { x = (P){ 1, 2 }; }
      DFunc(DesignatedLiteral),                              \* void f() { x = (P){ .a = 1 }; }
      DTag(StructSpec(<<"S">>, <<IntA>>)),                   \* struct S { int a; };
      DTag(StructFwd(<<"S">>)),                              \* struct S;
      DTypedefTag(StructSpec(<<"S">>, <<IntA>>), <<"T">>),   \* typedef struct S { int a; } T;
      DTypedefTag(StructSpec(<<>>, <<IntB>>), <<"U">>),      \* typedef struct { int b; } U;
      DTypedefProxy(<<S_int>>, <<"I">>),                     \* typedef int I;
      DTypedefRef(S_struct, <<"S">>, <<"W">>),               \* typedef struct S W;
      DTag(EnumSpec(<<"E">>, <<Enumerator(<<"A">>), Enumerator(<<"B">>)>>)),  \* enum E { A, B };
      DTag(EnumFwd(<<"E">>)),                                \* enum E;
      DTypedefTag(EnumSpec(<<>>, <<Enumerator(<<"C">>)>>), <<"V">>),          \* typedef enum { C } V;
      DTag(EnumSpec(<<"F">>, <<EnumeratorInit(<<"D">>, Ref(<<"A">>))>>)),     \* enum F { D = A };
      DTag(EnumSpec(<<>>, <<EnumeratorInit(<<"H">>, Ref(<<"Z">>))>>)) }       \* enum { H = Z };

Files == UNION {[1..n -> Decls] : n \in 1..MaxDecls}

Init == \E ds \in Files : StartOn(File(ds))

Spec == Init /\ [][Next]_vars

\* the enums of SpecEnum: enum E { A [= ..], B [= ..] [, C] };
Lits == {Lit(v) : v \in 0..MaxLit}

Atoms == Lits \cup {Ref(<<"A">>), Ref(<<"Z">>)}

Operators ==
    {<<"^">>, <<"|">>, <<"&">>, <<"+">>, <<"-">>, <<"*">>, <<"/">>, <<"%">>,
     <<"<">>, <<"<", "<">>}

Initializers ==
    Atoms \cup {Bin(l, op, r) : l \in Atoms, op \in Operators, r \in Atoms}
          \cup {Paren(e) : e \in Lits} \cup {Neg(e) : e \in Lits}

FirstEnumerators ==
    {Enumerator(<<"A">>)} \cup {EnumeratorInit(<<"A">>, e) : e \in Lits}
    \cup {EnumeratorInit(<<"A">>, Bin(Lit(0), <<"-">>, e)) : e \in Lits}

SecondEnumerators ==
    {Enumerator(<<"B">>)} \cup {EnumeratorInit(<<"B">>, e) : e \in Initializers}

EnumBodies ==
    {<<a, b>> : a \in FirstEnumerators, b \in SecondEnumerators}
    \cup {<<a, b, Enumerator(<<"C">>)>> : a \in FirstEnumerators, b \in SecondEnumerators}

InitEnum == \E es \in EnumBodies : StartOn(File(<<DTag(EnumSpec(<<"E">>, es))>>))

SpecEnum == InitEnum /\ [][Next]_vars

\* the structs of SpecStruct: struct S { <type> <declarator> [, <declarator>]; };
FieldTypes == {<<S_int>>, <<S_unsigned, S_int>>, <<S_struct, <<"a">>>>}

Suffixes == {<<>>, <<"4">>, <<"1", "0">>}

Declarators(name) == {Declarator(p, name, arr) : p \in 0..MaxPtrs, arr \in Suffixes}

FieldGroups ==
    {FieldGroup(t, <<d>>) : t \in FieldTypes, d \in Declarators(<<"a">>)}
    \cup {FieldGroup(t, <<d, e>>) :
             t \in FieldTypes, d \in Declarators(<<"a">>), e \in Declarators(<<"b">>)}

InitStruct == \E g \in FieldGroups : StartOn(File(<<DTag(StructSpec(<<"S">>, <<g>>))>>))

SpecStruct == InitStruct /\ [][Next]_vars

\* the files of SpecPrint: an optional comment, then int x; with line breaks
\* and blanks between the tokens
Comments == {<<>>, <<<<"/", "*", "*", "/">>>>, <<<<"/", "*", NL, "*", "/">>>>}

Gaps == {Gap(nl, sp) : nl \in 0..MaxGapLines, sp \in 0..MaxGapCols}

InitPrint ==
    \E c \in Comments :
        LET f == Cat(Frag(c, <<>>), DVar)
        IN  \E gaps \in [1..Len(f.sp) -> Gaps] :
                StartOn([tokens |-> Layout(f.sp, gaps), tu |-> f.nodes])

SpecPrint == InitPrint /\ [][Next]_vars

\* the files of SpecGrow: n declarations of tags with names of their own,
\* struct N1; struct N2; ..., and among them one typedef of a tag with a
\* body, so that the registry outgrows its first allocation
Numbered(i) == <<"N">> \o Itoa(i)

TagFwd(key, i) ==
    DTag(IF key = S_struct THEN StructFwd(Numbered(i)) ELSE EnumFwd(Numbered(i)))

TypedefOf(key) ==
    IF key = S_struct THEN DTypedefTag(StructSpec(<<"S">>, <<IntA>>), <<"T">>)
    ELSE DTypedefTag(EnumSpec(<<"E">>, <<Enumerator(<<"A">>)>>), <<"V">>)

\* p numbered tags, the typedef, the other n - p numbered tags
GrowFile(key, n, p) ==
    [i \in 1..(n + 1) |->
        IF i <= p THEN TagFwd(key, i)
        ELSE IF i = p + 1 THEN TypedefOf(key)
        ELSE TagFwd(key, i - 1)]

InitGrow ==
    \E key \in {S_struct, S_enum}, n \in 0..MaxTags :
        \E p \in 0..n : StartOn(File(GrowFile(key, n, p)))

SpecGrow == InitGrow /\ [][Next]_vars

-----------------------------------------------------------------------------
(* What the properties below speak of.                                     *)

\* the traversal is over and the run has not failed
Traversed == pc \in {"print", "cleanup", "done"}

\* print_tokens has returned
Printed == pc \in {"cleanup", "done"}

RECURSIVE Descendants(_)
\* the cursor and every cursor below it
Descendants(cursor) ==
    {cursor} \cup UNION {Descendants(cursor.kids[i]) : i \in DOMAIN cursor.kids}

AllCursors == UNION {Descendants(tu[i]) : i \in DOMAIN tu}

CursorsOfKind(kind) == {c \in AllCursors : c.kind = kind}

\* s without its blanks and line breaks
Squeeze(s) == SelectSeq(s, LAMBDA c : c # " " /\ c # NL)

\* sub occurs in s as a contiguous piece
Contains(sub, s) ==
    \E i \in 1..(Len(s) - Len(sub) + 1) : SubSeq(s, i, i + Len(sub) - 1) = sub

\* the spellings of tokens[from .. to]
Spellings(from, to) == [i \in 1..(to - from + 1) |-> tokens[from + i - 1].sp]

\* the children of cursor that are of the kind
KidsOfKind(cursor, kind) == SelectSeq(cursor.kids, LAMBDA c : c.kind = kind)

\* the struct or enum declarations that the visit of the top-level cursor
\* top hands to register_struct / register_enum
TagCalls(top, kind) ==
    IF top.kind = kind THEN {top}
    ELSE IF top.kind = "TypedefDecl"
    THEN {top.kids[i] : i \in {j \in DOMAIN top.kids : top.kids[j].kind = kind}}
    ELSE {}

\* the registry has the name of cursor c under another cursor
Taken(table, c) ==
    \E n \in DOMAIN table : table[n].name = c.name /\ table[n].cursor # c

RECURSIVE Decimal(_)
\* the number a string of decimal digits denotes
Decimal(s) ==
    IF s = <<>> THEN 0
    ELSE 10 * Decimal(SubSeq(s, 1, Len(s) - 1)) + DigitVal(s[Len(s)])

-----------------------------------------------------------------------------
(* Hoisting of compound literals.                                          *)

\* the statements of the blocks of the file
Statements ==
    UNION {{b.kids[i] : i \in DOMAIN b.kids} : b \in CursorsOfKind("CompoundStmt")}

\* <<S, L>>: the compound literal L is used in the statement S of a block
LiteralSites ==
    {site \in Statements \X CursorsOfKind("CompoundLiteralExpr") :
        site[2] \in Descendants(site[1])}

\* names a temporary may be given
TempNames == {<<"t", "e", "m", "p">>, <<"t", "m", "p">>}

\* ( type ) { initializers }, as the file has it
LiteralText(l) == Flatten(Spellings(l.from, l.to))

\* { type temp = { initializers } ; S with temp for the literal ; }
HoistedText(s, l, temp) ==
    Flatten(<<<<"{">>>> \o Spellings(l.kids[1].from, l.kids[1].to)
            \o <<temp, <<"=">>>> \o Spellings(l.kids[2].from, l.kids[2].to)
            \o <<<<";">>>> \o Spellings(s.from, l.from - 1) \o <<temp>>
            \o Spellings(l.to + 1, s.to + 1) \o <<<<"}">>>>)

\* C1: for every compound literal used in a statement S of a block, the
\* printed token stream has, in place of S, a new block that declares a
\* temporary of the literal's type initialized with the literal's
\* initializers and then holds S with the temporary's name for the literal;
\* the literal's own tokens are no longer printed.  (Blanks and line breaks
\* are not compared.)
C1_LiteralHoisted ==
    Printed =>
        \A site \in LiteralSites :
            /\ \E temp \in TempNames :
                   Contains(Squeeze(HoistedText(site[1], site[2], temp)), Squeeze(stdout))
            /\ ~Contains(Squeeze(LiteralText(site[2])), Squeeze(stdout))

-----------------------------------------------------------------------------
(* Standard output.                                                        *)

\* C2: the traversal writes nothing to standard output, and once the
\* printing is done standard output holds what print_tokens writes for the
\* token stream (the tokens and one terminating newline) and nothing else.
C2_OnlyTokenStream ==
    /\ pc \in {"visit", "print"} => stdout = <<>>
    /\ Printed => stdout = print_tokens(tokens).out

-----------------------------------------------------------------------------
(* Unknown enum constants.                                                 *)

\* the names find_enum_value can find
RegisteredNames == {AllMembers(enums)[k].name : k \in DOMAIN AllMembers(enums)}

\* an initializer of the enum declaration e refers to a name that is neither
\* registered nor an earlier enumerator of e
HasUnknownRef(e) ==
    \E k \in DOMAIN e.kids :
        \E i \in DOMAIN e.kids[k].kids :
            \E r \in Descendants(e.kids[k].kids[i]) :
                /\ r.kind = "DeclRefExpr"
                /\ r.name \notin RegisteredNames
                /\ \A j \in 1..(k - 1) : e.kids[j].name # r.name

\* C3: the visit of an enum declaration one of whose initializers refers to
\* an identifier that is not a registered enum constant ends the run with a
\* nonzero exit status and the diagnostic "Unknown enum value" on standard
\* error, and standard output is empty.
C3_UnknownEnumFails ==
    [][(/\ pc = "visit"
        /\ pos <= Len(tu)
        /\ \E e \in TagCalls(tu[pos], "EnumDecl") : HasUnknownRef(e))
       => (/\ pc' = "exit"
           /\ status' > 0
           /\ Contains(M_UnknownEnum, stderr')
           /\ stdout' = <<>>)]_vars

-----------------------------------------------------------------------------
(* Registering a name twice.                                               *)

\* the typedef entry the step has added is linked to an entry of the struct
\* registry that has the name of c under another cursor
LinkedToStruct(c) ==
    /\ Len(typedefs') = Len(typedefs) + 1
    /\ LET p == typedefs'[Len(typedefs')].struct_decl
       IN  /\ p.blk = structs_blk' /\ p.idx \in DOMAIN structs
           /\ structs[p.idx].name = c.name /\ structs[p.idx].cursor # c

LinkedToEnum(c) ==
    /\ Len(typedefs') = Len(typedefs) + 1
    /\ LET p == typedefs'[Len(typedefs')].enum_decl
       IN  /\ p.blk = enums_blk' /\ p.idx \in DOMAIN enums
           /\ enums[p.idx].name = c.name /\ enums[p.idx].cursor # c

\* C4: registering a struct or an enum under a name the registry holds with
\* a different cursor adds no entry and changes no member of an entry, and
\* a typedef that is being visited is linked to the entry that exists.
C4_NoDuplicate ==
    [][(pc = "visit" /\ pos <= Len(tu)) =>
          /\ \A c \in TagCalls(tu[pos], "StructDecl") :
                 Taken(structs, c) =>
                     /\ structs' = structs
                     /\ tu[pos].kind = "TypedefDecl" => LinkedToStruct(c)
          /\ \A c \in TagCalls(tu[pos], "EnumDecl") :
                 Taken(enums, c) =>
                     /\ enums' = enums
                     /\ tu[pos].kind = "TypedefDecl" => LinkedToEnum(c)]_vars

\* a typedef whose struct had its name registered under another cursor has
\* been visited: the struct was not registered, the typedef is linked
C4_Reached ==
    /\ pos > 1 /\ pc \in {"visit", "print"}
    /\ tu[pos - 1].kind = "TypedefDecl"
    /\ \E c \in TagCalls(tu[pos - 1], "StructDecl") :
           /\ Taken(structs, c)
           /\ \A n \in DOMAIN structs : structs[n].cursor # c
           /\ typedefs # <<>>
           /\ typedefs[Len(typedefs)].cursor = tu[pos - 1]
           /\ typedefs[Len(typedefs)].struct_decl.idx \in DOMAIN structs
           /\ structs[typedefs[Len(typedefs)].struct_decl.idx].name = c.name

\* C9: registering a struct or an enum whose name and cursor both equal
\* those of an entry creates no second entry: no registry holds two entries
\* with the same name and the same cursor.
C9_NoSecondEntry ==
    /\ \A i, j \in DOMAIN structs :
           i < j => ~(structs[i].name = structs[j].name
                      /\ structs[i].cursor = structs[j].cursor)
    /\ \A i, j \in DOMAIN enums :
           i < j => ~(enums[i].name = enums[j].name
                      /\ enums[i].cursor = enums[j].cursor)

-----------------------------------------------------------------------------
(* Enumerator values.                                                      *)

\* the enumerators of the declaration of the enum entry d
Enumerators(d) == KidsOfKind(enums[d].cursor, "EnumConstantDecl")

\* C5: an enumerator without an initializer has the value 0 if it is the
\* first of its enum and the value of the enumerator before it plus one
\* otherwise; after the traversal every enumerator has its entry, in order.
C5_DefaultSequence ==
    \A d \in DOMAIN enums :
        /\ Traversed => Len(enums[d].entries) = Len(Enumerators(d))
        /\ \A k \in DOMAIN enums[d].entries :
               /\ enums[d].entries[k].cursor = Enumerators(d)[k]
               /\ Enumerators(d)[k].kids = <<>> =>
                      enums[d].entries[k].value =
                          IF k = 1 THEN 0 ELSE enums[d].entries[k - 1].value + 1

\* enum E { A = 5, B, C } has been read as 5, 6, 7
C5_Reached ==
    /\ pc = "done"
    /\ \E d \in DOMAIN enums :
           /\ Len(enums[d].entries) = 3
           /\ Enumerators(d)[1].kids # <<>> /\ enums[d].entries[1].value = 5
           /\ Enumerators(d)[2].kids = <<>> /\ enums[d].entries[2].value = 6
           /\ Enumerators(d)[3].kids = <<>> /\ enums[d].entries[3].value = 7

\* the members find_enum_value can find while enumerator k of the enum
\* entry d is evaluated: those of the entries before d, then the earlier ones
\* of d
MembersBefore(d, k) ==
    AllMembers(SubSeq(enums, 1, d - 1)) \o SubSeq(enums[d].entries, 1, k - 1)

\* an operand is an integer literal or the name of a member in before
Resolved(c, before) ==
    \/ c.kind = "IntegerLiteral"
    \/ c.kind = "DeclRefExpr" /\ \E j \in DOMAIN before : before[j].name = c.name

OperandValue(c, before) ==
    IF c.kind = "IntegerLiteral" THEN Decimal(tokens[c.from].sp)
    ELSE before[CHOOSE j \in DOMAIN before :
                    /\ before[j].name = c.name
                    /\ \A i \in 1..(j - 1) : before[i].name # c.name].value

\* bit i of the two's complement int x, for i below the sign bit
BitAt(x, i) == (x \div 2^i) % 2

SignBit(x) == IF x < 0 THEN 1 ELSE 0

\* the truth tables of ^ | &
BitRule(op, x, y) ==
    CASE op = "&" -> x * y
      [] op = "|" -> (x + y) - x * y
      [] op = "^" -> (x + y) % 2

\* the ops of arithmetic_expression
ArithmeticOps == {"^", "|", "&", "+", "-", "*", "/", "%"}

\* the C expression a op b has a value (an int, with no undefined behaviour)
HasCResult(op, a, b) ==
    CASE op \in {"/", "%"} -> b # 0 /\ ~(a = INT_MIN /\ b = -1)
      [] op = "+" -> a + b >= INT_MIN /\ a + b <= INT_MAX
      [] op = "-" -> a - b >= INT_MIN /\ a - b <= INT_MAX
      [] op = "*" -> a * b >= INT_MIN /\ a * b <= INT_MAX
      [] OTHER -> TRUE

\* v is the value of the C expression a op b on ints
IsCResult(op, a, b, v) ==
    CASE op = "+" -> v = a + b
      [] op = "-" -> v = a - b
      [] op = "*" -> v = a * b
      [] op = "/" ->
            \* the quotient truncated toward zero
            LET r == a - v * b
            IN  Abs(r) < Abs(b) /\ (r = 0 \/ (r < 0) = (a < 0))
      [] op = "%" ->
            \* the remainder has the sign of the dividend
            /\ Abs(v) < Abs(b) /\ (v = 0 \/ (v < 0) = (a < 0))
            /\ \E q \in (0 - Abs(a))..Abs(a) : a = q * b + v
      [] OTHER ->
            /\ v >= INT_MIN /\ v <= INT_MAX
            /\ SignBit(v) = BitRule(op, SignBit(a), SignBit(b))
            /\ \A i \in 0..(IntBits - 2) :
                   BitAt(v, i) = BitRule(op, BitAt(a, i), BitAt(b, i))

\* the initializer e is  operand op operand  with an op of
\* arithmetic_expression and operands that have a value
IsBinaryInit(e, before) ==
    /\ e.kind = "BinaryOperator"
    /\ Len(e.kids) = 2
    /\ Len(tokens[e.loc].sp) = 1 /\ tokens[e.loc].sp[1] \in ArithmeticOps
    /\ Resolved(e.kids[1], before) /\ Resolved(e.kids[2], before)
    /\ HasCResult(tokens[e.loc].sp[1], OperandValue(e.kids[1], before),
                  OperandValue(e.kids[2], before))

\* C6: an initializer  a op b  with op one of ^ | & + - * / % and operands
\* that are integer literals or registered enum constants (the right one
\* not 0 for / and %) gives the enumerator exactly the C value of a op b:
\* division truncates toward zero, the remainder has the dividend's sign,
\* the bitwise operators work on the bits of int.
C6_BinaryExact ==
    \A d \in DOMAIN enums :
        \A k \in DOMAIN Enumerators(d) :
            (/\ Len(enums[d].entries) >= k - 1
             /\ Enumerators(d)[k].kids # <<>>
             /\ IsBinaryInit(Enumerators(d)[k].kids[1], MembersBefore(d, k)))
            => /\ Len(enums[d].entries) >= k
               /\ IsCResult(tokens[Enumerators(d)[k].kids[1].loc].sp[1],
                            OperandValue(Enumerators(d)[k].kids[1].kids[1],
                                         MembersBefore(d, k)),
                            OperandValue(Enumerators(d)[k].kids[1].kids[2],
                                         MembersBefore(d, k)),
                            enums[d].entries[k].value)

\* enum E { A = 0 - 3, B = A / 2 } has been read as -3, -1
C6_Reached ==
    /\ pc = "done"
    /\ \E d \in DOMAIN enums :
           /\ Len(enums[d].entries) = 2
           /\ enums[d].entries[1].value = -3
           /\ Enumerators(d)[2].kids # <<>>
           /\ Enumerators(d)[2].kids[1].kind = "BinaryOperator"
           /\ tokens[Enumerators(d)[2].kids[1].loc].sp = <<"/">>
           /\ Enumerators(d)[2].kids[1].kids[1].kind = "DeclRefExpr"
           /\ enums[d].entries[2].value = -1

RECURSIVE HasValue(_, _)
\* the initializer e is an expression the traversal can give a value: a
\* literal, a known constant, a binary expression of them, or one of these
\* in parentheses or negated
HasValue(e, before) ==
    CASE e.kind \in {"IntegerLiteral", "DeclRefExpr"} -> Resolved(e, before)
      [] e.kind = "BinaryOperator" -> IsBinaryInit(e, before)
      [] e.kind = "ParenExpr" -> HasValue(e.kids[1], before)
      [] e.kind = "UnaryOperator" ->
            tokens[e.from].sp = <<"-">> /\ HasValue(e.kids[1], before)
      [] OTHER -> FALSE

RECURSIVE ValueIs(_, _, _)
\* v is the value of the initializer e
ValueIs(e, before, v) ==
    CASE e.kind \in {"IntegerLiteral", "DeclRefExpr"} -> v = OperandValue(e, before)
      [] e.kind = "BinaryOperator" ->
            IsCResult(tokens[e.loc].sp[1], OperandValue(e.kids[1], before),
                      OperandValue(e.kids[2], before), v)
      [] e.kind = "ParenExpr" -> ValueIs(e.kids[1], before, v)
      [] e.kind = "UnaryOperator" -> ValueIs(e.kids[1], before, 0 - v)

\* C10: every enumerator that has an initializer gets the value of that
\* initializer, whatever the shape of the expression's root; the default
\* by position is for enumerators without an initializer only.
C10_EveryInitializer ==
    Traversed =>
        \A d \in DOMAIN enums :
            \A k \in DOMAIN enums[d].entries :
                (/\ Enumerators(d)[k].kids # <<>>
                 /\ HasValue(Enumerators(d)[k].kids[1], MembersBefore(d, k)))
                => ValueIs(Enumerators(d)[k].kids[1], MembersBefore(d, k),
                           enums[d].entries[k].value)

-----------------------------------------------------------------------------
(* Struct fields.                                                          *)

\* the fields of the declaration of the struct entry d
Fields(d) == KidsOfKind(structs[d].cursor, "FieldDecl")

\* the "*" tokens that stand immediately before the name of the field c
StarsBefore(c) ==
    Cardinality({n \in 1..(c.loc - 1) :
                    \A i \in (c.loc - n)..(c.loc - 1) : tokens[i].sp = <<"*">>})

\* the N of name[N], 0 without an array suffix
SuffixOf(c) ==
    IF /\ c.loc + 3 <= Len(tokens)
       /\ tokens[c.loc + 1].sp = <<"[">>
       /\ tokens[c.loc + 3].sp = <<"]">>
       /\ \A i \in DOMAIN tokens[c.loc + 2].sp : IsDigit(tokens[c.loc + 2].sp[i])
    THEN Decimal(tokens[c.loc + 2].sp)
    ELSE 0

RECURSIVE JoinBlank(_)
\* the strings of ss with one blank between two of them
JoinBlank(ss) ==
    IF ss = <<>> THEN <<>>
    ELSE IF Len(ss) = 1 THEN ss[1]
    ELSE ss[1] \o <<" ">> \o JoinBlank(Tail(ss))

\* C7: the entry of every struct field has as n_ptrs the number of "*"
\* immediately before the field's name, as array_size the N of name[N] (0
\* without a suffix), and as type the tokens from the start of the field's
\* extent to the token before the pointer markers joined by single blanks,
\* or the type of the field before it when that token is a comma.
C7_FieldShape ==
    Traversed =>
        \A d \in DOMAIN structs :
            /\ Len(structs[d].entries) = Len(Fields(d))
            /\ \A j \in DOMAIN structs[d].entries :
                   LET c == Fields(d)[j]
                       e == structs[d].entries[j]
                       q == c.loc - StarsBefore(c) - 1
                   IN  /\ e.name = c.name
                       /\ e.n_ptrs = StarsBefore(c)
                       /\ e.array_size = SuffixOf(c)
                       /\ e.type = IF tokens[q].sp = <<",">>
                                   THEN structs[d].entries[j - 1].type
                                   ELSE JoinBlank(Spellings(c.from, q))

-----------------------------------------------------------------------------
(* Where the tokens are printed.                                           *)

\* the line and the column (from 1) behind the last character of token t
EndLine(t) == t.line + NLCount(t.sp)

EndCol(t) == IF NLCount(t.sp) = 0 THEN t.col + Len(t.sp) ELSE 1 + TailLen(t.sp)

\* the tokens stand in order and do not overlap
Ordered(toks) ==
    \A i \in 1..(Len(toks) - 1) :
        \/ toks[i + 1].line > EndLine(toks[i])
        \/ toks[i + 1].line = EndLine(toks[i]) /\ toks[i + 1].col >= EndCol(toks[i])

\* the line and the column (from 0) of the character w[p] of the text w
LineOf(w, p) == NLCount(SubSeq(w, 1, p - 1))

ColOf(w, p) ==
    Cardinality({i \in 1..(p - 1) : \A j \in i..(p - 1) : w[j] # NL})

\* the first character of w at or after off that is no blank and no line
\* break; Len(w) + 1: none
NextInk(w, off) ==
    IF \E p \in off..Len(w) : w[p] \notin {" ", NL}
    THEN CHOOSE p \in off..Len(w) :
             /\ w[p] \notin {" ", NL}
             /\ \A i \in off..(p - 1) : w[i] \in {" ", NL}
    ELSE Len(w) + 1

RECURSIVE PlacedFrom(_, _, _, _)
RECURSIVE PlacedAt(_, _, _, _)
\* from w[off] on, w holds the tokens toks[i ..], each at its line and
\* column with only blanks and line breaks between them, and then one newline
PlacedFrom(w, toks, i, off) ==
    IF i > Len(toks) THEN SubSeq(w, off, Len(w)) = <<NL>>
    ELSE PlacedAt(w, toks, i, NextInk(w, off))

\* token i stands at w[p]
PlacedAt(w, toks, i, p) ==
    /\ p + Len(toks[i].sp) - 1 <= Len(w)
    /\ SubSeq(w, p, p + Len(toks[i].sp) - 1) = toks[i].sp
    /\ LineOf(w, p) = toks[i].line - 1
    /\ ColOf(w, p) = toks[i].col - 1
    /\ PlacedFrom(w, toks, i + 1, p + Len(toks[i].sp))

\* C8: for tokens that stand in order and do not overlap, print_tokens
\* writes every token so that it starts at the line and the column its
\* location records (both from 0), with only newlines and blanks between
\* the tokens, and ends the output with one newline.
C8_TokensInPlace ==
    [][(pc = "print" /\ Ordered(tokens)) =>
          /\ pc' = "cleanup"
          /\ PlacedFrom(SubSeq(stdout', Len(stdout) + 1, Len(stdout')), tokens, 1, 1)]_vars

-----------------------------------------------------------------------------
(* The typedef registry.                                                   *)

\* how many of the three targets of the typedef entry t are set
TargetsSet(t) ==
    (IF t.struct_decl # NULL THEN 1 ELSE 0)
    + (IF t.enum_decl # NULL THEN 1 ELSE 0)
    + (IF t.proxy # NullStr THEN 1 ELSE 0)

\* C11: every entry of the typedef registry has exactly one of its three
\* targets set (struct reference, enum reference, proxy text) and the other
\* two NULL, whatever the memory of a fresh slot held.
C11_ExactlyOneTarget ==
    \A n \in DOMAIN typedefs : TargetsSet(typedefs[n]) = 1

\* the names of the members of a registry entry, and of the fields of a
\* struct declaration or the enumerators of an enum declaration
MemberNames(entry) == [j \in DOMAIN entry.entries |-> entry.entries[j].name]

DeclaredNames(c, kind) ==
    [j \in DOMAIN KidsOfKind(c, kind) |-> KidsOfKind(c, kind)[j].name]

\* the pointer p designates an entry of table that was built from the
\* declaration c and holds the members c declares
BuiltFrom(p, table, c, kind) ==
    /\ p.idx \in DOMAIN table
    /\ table[p.idx].cursor = c
    /\ MemberNames(table[p.idx]) = DeclaredNames(c, kind)

\* C12: a typedef whose declaration contains a struct (an enum) declaration
\* is linked to the registry entry built from that very declaration, whose
\* members are the fields of the typedef's own struct; also when the same
\* name, the empty name included, was registered before from another node.
C12_OwnDeclaration ==
    Traversed =>
        \A n \in DOMAIN typedefs :
            /\ \A c \in TagCalls(typedefs[n].cursor, "StructDecl") :
                   BuiltFrom(typedefs[n].struct_decl, structs, c, "FieldDecl")
            /\ \A c \in TagCalls(typedefs[n].cursor, "EnumDecl") :
                   BuiltFrom(typedefs[n].enum_decl, enums, c, "EnumConstantDecl")

\* C13: as long as the run has not ended, the struct or enum reference a
\* typedef entry was given designates an entry of the struct or enum
\* registry as it now stands, also after registrations that grow a registry
\* past its allocation and may move it.
C13_ReferencesLive ==
    pc \in {"visit", "print", "cleanup"} =>
        \A n \in DOMAIN typedefs :
            /\ TagCalls(typedefs[n].cursor, "StructDecl") # {} =>
                   Live(typedefs[n].struct_decl, structs, structs_blk)
            /\ TagCalls(typedefs[n].cursor, "EnumDecl") # {} =>
                   Live(typedefs[n].enum_decl, enums, enums_blk)

=============================================================================
